---- MODULE Spec2Model ----
(***************************************************************************)
(* Project workflow state machine of the SEO blog builder:                 *)
(*   app/core/state.py                      StateManager (Redis store)     *)
(*   app/orchestration/orchestrator.py      Orchestrator                   *)
(*   app/api/routes/blog_generator/routes.py  cancel, background workflow  *)
(*                                                                         *)
(* The Redis keyspace is modelled as it is used: string keys holding JSON  *)
(* documents (kv) and list keys holding the timelines (timeline).  Every   *)
(* store write of an operation is one step, so the documents a concurrent  *)
(* reader can observe between two writes are states of the model.          *)
(* External collaborators (language-model, SEO and site services) are the  *)
(* environment: a call returns a value or raises.                          *)
(***************************************************************************)
EXTENDS Integers, Sequences, FiniteSets, TLC

VARIABLES kv, timeline, call, req, ret, wf, creating, wp, marking, lost

vars == <<kv, timeline, call, req, ret, wf, creating, wp, marking, lost>>

\* the state no operation of the orchestrator or of the routes touches:
\* bare create_project_state calls in flight, and the WordPress service
rest == <<creating, wp, marking>>

----------------------------------------------------------------------------
(* Bounds *)

\* operations (start, run_stage, cancel) begun per project in Spec
MaxOps == 3
\* articles in a content plan returned by the SEO collaborator
MaxArticles == 1
\* cancel requests handled per project while its workflow runs (SpecCancel)
MaxCancels == 1
\* create_project_state calls that can be in flight at once (SpecCreate)
MaxCallers == 3
\* store calls that redis leaves unanswered (SpecOutage)
MaxOutages == 1
\* categories, tags and posts listed in the blog_data of a setup_blog call,
\* and category or tag names listed by one post (SpecSetup)
MaxCategories == 2
MaxTags == 1
MaxPosts == 1
MaxNamed == 1

ProjectIds == {"P1", "P2"}
\* project ids the requests of Spec are issued for
Requested == {"P1"}
Topics == {"fitness supplements"}

----------------------------------------------------------------------------
(* Vocabulary *)

NOT_FOUND == "not_found"
ERROR == "error"
UNKNOWN == "unknown"
INITIALIZING == "initializing"
IN_PROGRESS == "in_progress"
PAUSED == "paused"
COMPLETED == "completed"
FAILED == "failed"
\* the literal process_deployment writes instead of ProjectStatus.COMPLETED
COMPLETED_LITERAL == "COMPLETED"

ProjectStatus ==
    {NOT_FOUND, ERROR, UNKNOWN, INITIALIZING, IN_PROGRESS, PAUSED, COMPLETED, FAILED}

StageOrder ==
    << "topic_analysis", "niche_research", "content_planning",
       "content_creation", "site_generation", "deployment" >>

StageNames == {StageOrder[i] : i \in 1..Len(StageOrder)}

StageStatuses == {"pending", "in_progress", "completed", "failed"}

StageIndex(s) == CHOOSE i \in 1..Len(StageOrder) : StageOrder[i] = s

\* the stage each process_<stage> starts after its own completion
NextStage(s) ==
    CASE s = "topic_analysis"   -> "niche_research"
      [] s = "niche_research"   -> "content_planning"
      [] s = "content_planning" -> "content_creation"
      [] s = "content_creation" -> "site_generation"
      [] s = "site_generation"  -> "deployment"
      [] OTHER                  -> "none"

\* the progress value each process_<stage> writes on success
Checkpoint(s) ==
    CASE s = "topic_analysis"   -> 15
      [] s = "niche_research"   -> 30
      [] s = "content_planning" -> 45
      [] s = "content_creation" -> 65
      [] s = "site_generation"  -> 85
      [] OTHER                  -> 100

\* the document key under which each stage stores its result
PayloadKey(s) ==
    CASE s = "topic_analysis"   -> "topic_analysis"
      [] s = "niche_research"   -> "niche_research"
      [] s = "content_planning" -> "content_plan"
      [] s = "content_creation" -> "generated_content"
      [] s = "site_generation"  -> "site"
      [] OTHER                  -> "deployment"

CompletedEvent(s) ==
    CASE s = "topic_analysis"   -> "topic_analysis_completed"
      [] s = "niche_research"   -> "niche_research_completed"
      [] s = "content_planning" -> "content_planning_completed"
      [] s = "content_creation" -> "content_creation_completed"
      [] s = "site_generation"  -> "site_generation_completed"
      [] OTHER                  -> "deployment_completed"

FailedEvent(s) ==
    CASE s = "topic_analysis"   -> "topic_analysis_failed"
      [] s = "niche_research"   -> "niche_research_failed"
      [] s = "content_planning" -> "content_planning_failed"
      [] s = "content_creation" -> "content_creation_failed"
      [] s = "site_generation"  -> "site_generation_failed"
      [] OTHER                  -> "deployment_failed"

\* Python None, and the value of datetime.now().isoformat() (only its
\* presence is modelled)
None == "None"
Now == "ts"
\* a timestamp a caller supplies itself, earlier than Now
Earlier == "t0"

ProviderError == "provider error"
SiteIdNotFound == "Site ID not found in project state"
CreateSiteFailed == "Failed to create static site"
BuildFailed == "Failed to build site"
DeployFailed == "Failed to deploy site"
UuidNameError == "name 'uuid' is not defined"
\* redis.exceptions.ConnectionError, raised when the store does not answer
StoreDown == "Error connecting to redis"
NoError == "-"

----------------------------------------------------------------------------
(* StateManager: the Redis store *)

\* how many of the store calls with these answer flags got no answer
Missed(flags) == Cardinality({i \in DOMAIN flags : ~flags[i]})

\* StateManager._get_project_key: "project:<id>:state"
ProjectKey(p) == << "project", p, "state" >>

\* the project ids whose state key exists
HasState(store, p) == ProjectKey(p) \in DOMAIN store

\* variant of CreateProjectState: no exists() test before the SET
CreateProjectStateOverwrite(store, p, initial_state) ==
    LET stamped == IF "created_at" \in DOMAIN initial_state
                   THEN initial_state
                   ELSE initial_state @@ [created_at |-> Now]
    IN  [ok |-> TRUE,
         kv |-> [k \in DOMAIN store \cup {ProjectKey(p)} |->
                    IF k = ProjectKey(p) THEN stamped ELSE store[k]]]

\* StateManager.create_project_state
CreateProjectState(store, p, initial_state) ==
    IF HasState(store, p)
    THEN [ok |-> FALSE, kv |-> store]
    ELSE LET stamped == IF "created_at" \in DOMAIN initial_state
                        THEN initial_state
                        ELSE initial_state @@ [created_at |-> Now]
         IN  [ok |-> TRUE, kv |-> (ProjectKey(p) :> stamped) @@ store]

\* StateManager.create_project_state after its exists() test: the created_at
\* stamp and the SET, which stores whatever the key holds by then
SetProjectState(store, p, initial_state) ==
    LET stamped == IF "created_at" \in DOMAIN initial_state
                   THEN initial_state
                   ELSE initial_state @@ [created_at |-> Now]
    IN  (ProjectKey(p) :> stamped) @@ store

\* StateManager.create_project_state once EXISTS has answered; its except
\* branch: when redis does not answer the SET nothing is stored
CreateProjectStateOrFalse(store, p, initial_state, writable) ==
    IF writable
    THEN CreateProjectState(store, p, initial_state)
    ELSE [ok |-> FALSE, kv |-> store]

\* StateManager.get_project_state, its try body (the store answers)
GetProjectState(store, p) ==
    IF HasState(store, p)
    THEN store[ProjectKey(p)]
    ELSE [status |-> NOT_FOUND, error |-> "Project not found"]

\* variant of GetProjectStateOrError: an unreachable store reads as absent
GetProjectStateOrAbsent(store, p, reachable) ==
    IF reachable
    THEN GetProjectState(store, p)
    ELSE [status |-> NOT_FOUND, error |-> "Project not found"]

\* StateManager.get_project_state with its except branch: redis GET raises
\* when the store cannot be reached
GetProjectStateOrError(store, p, reachable) ==
    IF reachable
    THEN GetProjectState(store, p)
    ELSE [status |-> ERROR, error |-> "Error retrieving project state"]

\* variant of WriteKey: the loop does not rebind `key`
WriteKeyProject(p, updates, lastKey) == ProjectKey(p)

\* The key update_project_state hands to redis SET: its loop
\* `for key, value in updates.items()` rebinds the local `key`, so after the
\* loop `key` is the last key of `updates`, not the project's key.
WriteKey(p, updates, lastKey) ==
    IF DOMAIN updates = {} THEN ProjectKey(p) ELSE << lastKey >>

\* variant of UpdateProjectState: a missing document is treated as empty
UpdateProjectStateUpsert(store, p, updates, lastKey) ==
    LET current_state == IF HasState(store, p) THEN store[ProjectKey(p)]
                         ELSE [project_id |-> p]
        merged == [updated_at |-> Now] @@ (updates @@ current_state)
    IN  [ok |-> TRUE,
         kv |-> (ProjectKey(p) :> merged) @@ store]

\* StateManager.update_project_state; lastKey is the last key of the dict
\* `updates` in insertion order
UpdateProjectState(store, p, updates, lastKey) ==
    IF ~HasState(store, p)
    THEN [ok |-> FALSE, kv |-> store]
    ELSE LET current_state == store[ProjectKey(p)]
             merged == [updated_at |-> Now] @@ (updates @@ current_state)
         IN  [ok |-> TRUE,
              kv |-> (WriteKey(p, updates, lastKey) :> merged) @@ store]

\* variant of UpdateProjectStateOrFalse: the current document is taken from
\* get_project_state, which answers with a synthetic document when the key
\* is missing or redis does not answer
UpdateProjectStateViaGet(store, p, updates, lastKey, reachable) ==
    LET current_state == GetProjectStateOrError(store, p, reachable)
        merged == [updated_at |-> Now] @@ (updates @@ current_state)
    IN  [ok |-> TRUE,
         kv |-> (WriteKey(p, updates, lastKey) :> merged) @@ store]

\* StateManager.update_project_state with its except branch: when redis
\* does not answer the GET or the SET, nothing is written and False returned
UpdateProjectStateOrFalse(store, p, updates, lastKey, reachable) ==
    IF reachable
    THEN UpdateProjectState(store, p, updates, lastKey)
    ELSE [ok |-> FALSE, kv |-> store]

\* StateManager.delete_project_state: DEL of the state key only
DeleteProjectState(store, p) ==
    [ok |-> HasState(store, p),
     kv |-> [k \in DOMAIN store \ {ProjectKey(p)} |-> store[k]]]

\* variant of AddEvent: LPUSH instead of RPUSH
AddEventFront(tl, p, event) ==
    LET stamped == IF "timestamp" \in DOMAIN event
                   THEN event
                   ELSE event @@ [timestamp |-> Now]
    IN  [tl EXCEPT ![p] = << stamped >> \o @]

\* StateManager.add_event_to_project_timeline (RPUSH on the timeline list)
AddEvent(tl, p, event) ==
    LET stamped == IF "timestamp" \in DOMAIN event
                   THEN event
                   ELSE event @@ [timestamp |-> Now]
    IN  [tl EXCEPT ![p] = Append(@, stamped)]

\* StateManager.add_event_to_project_timeline with its except branch: when
\* redis does not answer the RPUSH the event is dropped and False returned
AddEventOrFalse(tl, p, event, reachable) ==
    IF reachable THEN AddEvent(tl, p, event) ELSE tl

\* StateManager.get_project_timeline (LRANGE 0 -1)
GetProjectTimeline(tl, p) == tl[p]

----------------------------------------------------------------------------
(* Orchestrator *)

\* the initial_state literal of Orchestrator.start_project
InitialState(p, topic) ==
    [ project_id    |-> p,
      topic         |-> topic,
      preferences   |-> << >>,
      status        |-> INITIALIZING,
      current_stage |-> "topic_analysis",
      progress      |-> 0,
      stages        |-> [s \in StageNames |->
                           [status |-> "pending", started_at |-> None,
                            completed_at |-> None]],
      created_at    |-> Now,
      updated_at    |-> Now ]

\* Last key, in insertion order, of a state document as _update_stage_status
\* passes it to update_project_state: documents are created from the
\* initial_state literal, whose last key is updated_at, and the JSON round
\* trip keeps the order; keys assigned later in the function already exist.
DocLastKey(state) == "updated_at"

\* Orchestrator._update_stage_status, the changes it makes to the document
\* it has read: the stage record, current_stage and the derived status
StageStatusDoc(state, stage, status) ==
    LET rec0 == state.stages[stage]
        rec1 == IF status = "in_progress"
                THEN [rec0 EXCEPT !.started_at = Now]
                ELSE IF status \in {"completed", "failed"}
                     THEN [rec0 EXCEPT !.completed_at = Now]
                     ELSE rec0
        stages1 == [state.stages EXCEPT ![stage] = [rec1 EXCEPT !.status = status]]
        global == IF status = "failed" THEN FAILED
                  ELSE IF \A s \in DOMAIN stages1 : stages1[s].status = "completed"
                       THEN COMPLETED
                       ELSE IN_PROGRESS
    IN  [state EXCEPT !.stages = stages1,
                      !.current_stage =
                          IF status = "in_progress" THEN stage ELSE @,
                      !.status = global,
                      !.updated_at = Now]

\* Orchestrator._update_stage_status from the document `state` it has read
\* on: the guard on "stages", then the whole changed document is handed to
\* update_project_state as its `updates`
WriteStageStatus(store, p, state, stage, status, writable) ==
    IF "stages" \in DOMAIN state /\ stage \in DOMAIN state.stages
    THEN UpdateProjectStateOrFalse(store, p,
             StageStatusDoc(state, stage, status),
             DocLastKey(state), writable).kv
    ELSE store

\* Orchestrator._update_stage_status; readable and writable tell whether
\* redis answers its get_project_state and its update_project_state
UpdateStageStatusOrSkip(store, p, stage, status, readable, writable) ==
    WriteStageStatus(store, p, GetProjectStateOrError(store, p, readable),
                     stage, status, writable)

\* Orchestrator._update_stage_status while the store answers
UpdateStageStatus(store, p, stage, status) ==
    UpdateStageStatusOrSkip(store, p, stage, status, TRUE, TRUE)

\* What process_<stage> reads from the loaded project state for its executor:
\* .get(<key>, default) of the result an earlier stage stored
StageInput(stage, state) ==
    LET from(k) == IF k \in DOMAIN state THEN state[k] ELSE << >> IN
    CASE stage = "content_creation" -> from("content_plan")
      [] stage = "site_generation"  -> from("generated_content")
      [] stage = "deployment"       -> from("site")
      [] OTHER                      -> << >>

Ok(v) == [ok |-> TRUE, value |-> v, err |-> NoError]
Raise(e) == [ok |-> FALSE, value |-> << >>, err |-> e]

\* content plans the SEO collaborator may return (pillar and cluster items)
Plans == {[i \in 1..n |-> "plan"] : n \in 0..MaxArticles}

\* _generate_article: the provider's error is caught per article and an
\* error article is returned in place of the article
Articles(plan) == [1..Len(plan) -> {"article", "error_article"}]

\* The executor part of each process_<stage>: the collaborator calls between
\* marking the stage in_progress and storing the result.
ExecOutcomes(stage, input) ==
    CASE stage = "topic_analysis" ->
            {Ok(<< "analysis" >>), Raise(ProviderError)}
      [] stage = "niche_research" ->
            {Ok(<< "research" >>), Raise(ProviderError)}
      [] stage = "content_planning" ->
            {Ok(plan) : plan \in Plans} \cup {Raise(ProviderError)}
      [] stage = "content_creation" ->
            {Ok(arts) : arts \in Articles(input)}
      [] stage = "site_generation" ->
            {Raise(CreateSiteFailed)} \cup
            (IF input = << >>
             THEN {Ok(<< "site_id" >>)}
             ELSE {Raise(UuidNameError)})
      [] OTHER ->
            {Ok(<< "deployed" >>), Raise(BuildFailed), Raise(DeployFailed)}

\* the dict each process_<stage> passes to update_project_state on success
ResultUpdates(stage, value) ==
    CASE stage = "topic_analysis" ->
            [topic_analysis |-> value, progress |-> Checkpoint(stage)]
      [] stage = "niche_research" ->
            [niche_research |-> value, progress |-> Checkpoint(stage)]
      [] stage = "content_planning" ->
            [content_plan |-> value, progress |-> Checkpoint(stage)]
      [] stage = "content_creation" ->
            [generated_content |-> value, progress |-> Checkpoint(stage)]
      [] stage = "site_generation" ->
            [site |-> value, progress |-> Checkpoint(stage)]
      [] OTHER ->
            [deployment |-> value, status |-> COMPLETED_LITERAL,
             progress |-> Checkpoint(stage)]

Event(type, data) == [event_type |-> type, data |-> data]

IdleCall == [op |-> "none", stage |-> "-", pc |-> "-", created |-> FALSE,
             input |-> << >>, value |-> << >>, err |-> NoError]
IdleReq == [pc |-> "-", prev |-> "-"]
NoRet == [op |-> "none", stage |-> "-", success |-> FALSE,
          status |-> "-", error |-> NoError]
NoWf == [stage |-> "-", phase |-> "none"]

Idle(p) == call[p] = IdleCall /\ req[p] = IdleReq

\* concurrent callers of create_project_state
Callers == 1..MaxCallers
\* no create_project_state call in flight for a caller
IdleCreate == [pc |-> "-", p |-> "-", doc |-> << >>, result |-> "-"]
\* no _update_stage_status call between its read and its write
IdleMark ==
    [pc |-> "-", p |-> "-", stage |-> "-", status |-> "-", state |-> << >>,
     during |-> {}]

\* category and tag names a blog_data may use
CategoryNames == {"Category 1", "Category 2"}
TagNames == {"Tag 1"}

SeqsUpTo(S, n) == UNION {[1..k -> S] : k \in 0..n}

\* the posts of a blog_data: the names of their categories and tags (title,
\* content, excerpt and status are passed on to create_post unchanged)
PostData ==
    [categories : SeqsUpTo(CategoryNames, MaxNamed),
     tags : SeqsUpTo(TagNames, MaxNamed)]

\* the blog_data handed to setup_blog: categories and tags by name
\* (description and parent are passed on to the create call unchanged)
BlogData ==
    [categories : SeqsUpTo(CategoryNames, MaxCategories),
     tags : SeqsUpTo(TagNames, MaxTags),
     posts : SeqsUpTo(PostData, MaxPosts)]

RequestError == "request failed"

\* the result setup_blog starts from; error "-" stands for no error key
EmptyResult ==
    [status |-> "success", categories |-> << >>, tags |-> << >>,
     posts |-> << >>, error |-> NoError]

\* no setup_blog call in flight
IdleSetup ==
    [pc |-> "-",
     blog_data |-> [categories |-> << >>, tags |-> << >>, posts |-> << >>],
     i |-> 0, result |-> EmptyResult, calls |-> << >>]

Init ==
    /\ kv = << >>
    /\ timeline = [p \in ProjectIds |-> << >>]
    /\ call = [p \in ProjectIds |-> IdleCall]
    /\ req = [p \in ProjectIds |-> IdleReq]
    /\ ret = [p \in ProjectIds |-> NoRet]
    /\ wf = [p \in ProjectIds |-> NoWf]
    /\ creating = [c \in Callers |-> IdleCreate]
    /\ marking = IdleMark
    /\ wp = IdleSetup
    /\ lost = 0

(* Orchestrator.start_project: create, project_started event, first stage *)

\* `created` is the value create_project_state returns (start_project drops it)
StartEnterConn(p, topic, answers, writable) ==
    IF ~answers
    THEN \* EXISTS stands outside the try block: the exception leaves
         \* create_project_state and start_project
         /\ ret' = [ret EXCEPT ![p] =
                      [op |-> "start", stage |-> "-", success |-> FALSE,
                       status |-> "-", error |-> StoreDown]]
         /\ UNCHANGED <<kv, timeline, call, req, rest>>
         /\ lost' = lost + 1
         /\ lost' <= MaxOutages
    ELSE LET made == CreateProjectStateOrFalse(kv, p, InitialState(p, topic),
                                               writable)
         IN  /\ kv' = made.kv
             /\ call' = [call EXCEPT ![p] =
                           [IdleCall EXCEPT
                              !.op = "start", !.pc = "event",
                              !.created = made.ok,
                              !.input = << topic >>]]
             /\ UNCHANGED <<timeline, req, ret, rest>>
             /\ lost' = lost + Missed(<< writable >>)
             /\ lost' <= MaxOutages

\* the store answers
StartEnter(p, topic) == StartEnterConn(p, topic, TRUE, TRUE)

StartProject(p, topic) ==
    /\ Idle(p)
    /\ Len(timeline[p]) < MaxOps
    /\ StartEnter(p, topic)
    /\ UNCHANGED <<wf, rest>>

StartEventConn(p, reachable) ==
    /\ call[p].op = "start" /\ call[p].pc = "event"
    /\ timeline' = AddEventOrFalse(timeline, p,
                       Event("project_started", call[p].input), reachable)
    /\ call' = [call EXCEPT ![p].pc = "mark"]
    /\ UNCHANGED <<kv, req, ret, wf, rest>>
    /\ lost' = lost + Missed(<< reachable >>)
    /\ lost' <= MaxOutages

StartEvent(p) == StartEventConn(p, TRUE)

StartMarkConn(p, readable, writable) ==
    /\ call[p].op = "start" /\ call[p].pc = "mark"
    /\ kv' = UpdateStageStatusOrSkip(kv, p, "topic_analysis", "in_progress",
                                     readable, writable)
    /\ ret' = [ret EXCEPT ![p] =
                 [op |-> "start", stage |-> "-", success |-> TRUE,
                  status |-> INITIALIZING, error |-> NoError]]
    /\ call' = [call EXCEPT ![p] = IdleCall]
    /\ UNCHANGED <<timeline, req, wf, rest>>
    /\ lost' = lost + Missed(<< readable, writable >>)
    /\ lost' <= MaxOutages

StartMark(p) == StartMarkConn(p, TRUE, TRUE)

(* Orchestrator.process_<stage>, the run_stage of each stage *)

\* load the state, (deployment: require the site id,) mark in_progress
ProcessEnterConn(p, stage, loadable, readable, writable) ==
    LET project_state == GetProjectStateOrError(kv, p, loadable)
        input == StageInput(stage, project_state)
    IN  /\ IF stage = "deployment" /\ input = << >>
           THEN /\ call' = [call EXCEPT ![p] =
                              [IdleCall EXCEPT !.op = "run", !.stage = stage,
                                               !.pc = "mark_failed",
                                               !.err = SiteIdNotFound]]
                /\ kv' = kv
                /\ lost' = lost + Missed(<< loadable >>)
                /\ lost' <= MaxOutages
           ELSE /\ call' = [call EXCEPT ![p] =
                              [IdleCall EXCEPT !.op = "run", !.stage = stage,
                                               !.pc = "execute",
                                               !.input = input]]
                /\ kv' = UpdateStageStatusOrSkip(kv, p, stage, "in_progress",
                                                 readable, writable)
                /\ lost' = lost + Missed(<< loadable, readable, writable >>)
                /\ lost' <= MaxOutages
        /\ UNCHANGED <<timeline, req, ret, rest>>

\* the store answers
ProcessEnter(p, stage) == ProcessEnterConn(p, stage, TRUE, TRUE, TRUE)

ProcessBegin(p, stage) ==
    /\ Idle(p)
    /\ Len(timeline[p]) < MaxOps
    /\ ProcessEnter(p, stage)
    /\ UNCHANGED <<wf, rest>>

\* run the executor; on success store the result and the checkpoint
ProcessExecuteConn(p, reachable) ==
    /\ call[p].op = "run" /\ call[p].pc = "execute"
    /\ \E out \in ExecOutcomes(call[p].stage, call[p].input) :
          IF out.ok
          THEN /\ kv' = UpdateProjectStateOrFalse(kv, p,
                            ResultUpdates(call[p].stage, out.value),
                            "progress", reachable).kv
               /\ call' = [call EXCEPT ![p].pc = "event",
                                       ![p].value = out.value]
          ELSE /\ kv' = kv
               /\ call' = [call EXCEPT ![p].pc = "mark_failed",
                                       ![p].err = out.err]
    /\ UNCHANGED <<timeline, req, ret, wf, rest>>
    /\ lost' = lost + Missed(<< reachable >>)
    /\ lost' <= MaxOutages

ProcessExecute(p) == ProcessExecuteConn(p, TRUE)

ProcessEventConn(p, reachable) ==
    /\ call[p].op = "run" /\ call[p].pc = "event"
    /\ timeline' = AddEventOrFalse(timeline, p,
                       Event(CompletedEvent(call[p].stage), call[p].value),
                       reachable)
    /\ call' = [call EXCEPT ![p].pc = "mark_completed"]
    /\ UNCHANGED <<kv, req, ret, wf, rest>>
    /\ lost' = lost + Missed(<< reachable >>)
    /\ lost' <= MaxOutages

ProcessEvent(p) == ProcessEventConn(p, TRUE)

ProcessMarkCompletedConn(p, readable, writable) ==
    /\ call[p].op = "run" /\ call[p].pc = "mark_completed"
    /\ kv' = UpdateStageStatusOrSkip(kv, p, call[p].stage, "completed",
                                     readable, writable)
    /\ call' = [call EXCEPT ![p].pc = "chain"]
    /\ UNCHANGED <<timeline, req, ret, wf, rest>>
    /\ lost' = lost + Missed(<< readable, writable >>)
    /\ lost' <= MaxOutages

ProcessMarkCompleted(p) == ProcessMarkCompletedConn(p, TRUE, TRUE)

\* start the next stage (deployment: mark the project completed), return
ProcessChainConn(p, readable, writable) ==
    /\ call[p].op = "run" /\ call[p].pc = "chain"
    /\ kv' = IF call[p].stage = "deployment"
             THEN UpdateProjectStateOrFalse(kv, p,
                      [status |-> COMPLETED_LITERAL], "status", writable).kv
             ELSE UpdateStageStatusOrSkip(kv, p, NextStage(call[p].stage),
                                          "in_progress", readable, writable)
    /\ ret' = [ret EXCEPT ![p] =
                 [op |-> "run", stage |-> call[p].stage, success |-> TRUE,
                  status |-> "-", error |-> NoError]]
    /\ call' = [call EXCEPT ![p] = IdleCall]
    /\ UNCHANGED <<timeline, req, wf, rest>>
    /\ lost' = lost + Missed(<< readable, writable >>)
    /\ lost' <= MaxOutages

ProcessChain(p) == ProcessChainConn(p, TRUE, TRUE)

\* the except branch: mark the stage failed, append the failure event
ProcessMarkFailedConn(p, readable, writable) ==
    /\ call[p].op = "run" /\ call[p].pc = "mark_failed"
    /\ kv' = UpdateStageStatusOrSkip(kv, p, call[p].stage, "failed",
                                     readable, writable)
    /\ call' = [call EXCEPT ![p].pc = "failed_event"]
    /\ UNCHANGED <<timeline, req, ret, wf, rest>>
    /\ lost' = lost + Missed(<< readable, writable >>)
    /\ lost' <= MaxOutages

ProcessMarkFailed(p) == ProcessMarkFailedConn(p, TRUE, TRUE)

ProcessFailedEventConn(p, reachable) ==
    /\ call[p].op = "run" /\ call[p].pc = "failed_event"
    /\ timeline' = AddEventOrFalse(timeline, p,
                       Event(FailedEvent(call[p].stage), << call[p].err >>),
                       reachable)
    /\ ret' = [ret EXCEPT ![p] =
                 [op |-> "run", stage |-> call[p].stage, success |-> FALSE,
                  status |-> "-", error |-> call[p].err]]
    /\ call' = [call EXCEPT ![p] = IdleCall]
    /\ UNCHANGED <<kv, req, wf, rest>>
    /\ lost' = lost + Missed(<< reachable >>)
    /\ lost' <= MaxOutages

ProcessFailedEvent(p) == ProcessFailedEventConn(p, TRUE)

----------------------------------------------------------------------------
(* Routes of the blog generator *)

CountEvents(tl, type) ==
    Cardinality({i \in 1..Len(tl) : tl[i].event_type = type})

HasEvent(tl, type) == \E i \in 1..Len(tl) : tl[i].event_type = type

\* cancel_blog_creation: read the state, 404 when absent, else write PAUSED
\* (the Project row of the relational catalog is not part of the store)
CancelEnterConn(p, readable, writable) ==
    LET project_state == GetProjectStateOrError(kv, p, readable) IN
    IF project_state.status = NOT_FOUND
    THEN /\ ret' = [ret EXCEPT ![p] =
                      [op |-> "cancel", stage |-> "-", success |-> FALSE,
                       status |-> "-", error |-> NOT_FOUND]]
         /\ UNCHANGED <<kv, timeline, call, req, rest>>
         /\ lost' = lost + Missed(<< readable >>)
         /\ lost' <= MaxOutages
    ELSE /\ kv' = UpdateProjectStateOrFalse(kv, p,
                      [status |-> PAUSED, updated_at |-> Now],
                      "updated_at", writable).kv
         /\ req' = [req EXCEPT ![p] =
                      [pc |-> "event", prev |-> project_state.status]]
         /\ UNCHANGED <<timeline, call, ret, rest>>
         /\ lost' = lost + Missed(<< readable, writable >>)
         /\ lost' <= MaxOutages

\* the store answers
CancelEnter(p) == CancelEnterConn(p, TRUE, TRUE)

CancelBlogCreation(p) ==
    /\ Idle(p)
    /\ Len(timeline[p]) < MaxOps
    /\ CancelEnter(p)
    /\ UNCHANGED <<wf, rest>>

\* cancel_blog_creation: append project_cancelled, respond
CancelEventConn(p, reachable) ==
    /\ req[p].pc = "event"
    /\ timeline' = AddEventOrFalse(timeline, p,
                       Event("project_cancelled", << req[p].prev >>),
                       reachable)
    /\ ret' = [ret EXCEPT ![p] =
                 [op |-> "cancel", stage |-> "-", success |-> TRUE,
                  status |-> "cancelled", error |-> NoError]]
    /\ req' = [req EXCEPT ![p] = IdleReq]
    /\ UNCHANGED <<kv, call, wf, rest>>
    /\ lost' = lost + Missed(<< reachable >>)
    /\ lost' <= MaxOutages

CancelEvent(p) == CancelEventConn(p, TRUE)

\* cancel_blog_creation handled by another worker while a process_<stage>
\* call of the background workflow of p is in flight
CancelInFlight(p) ==
    /\ wf[p].phase = "wait"
    /\ call[p].op = "run"
    /\ req[p] = IdleReq
    /\ CountEvents(timeline[p], "project_cancelled") < MaxCancels
    /\ CancelEnter(p)
    /\ UNCHANGED <<wf, rest>>

\* the second half of that cancel; its response goes to the cancelling
\* client, ret keeps the outcome handed to the workflow
CancelEventInFlight(p) ==
    /\ req[p].pc = "event"
    /\ timeline' = AddEvent(timeline, p,
                       Event("project_cancelled", << req[p].prev >>))
    /\ req' = [req EXCEPT ![p] = IdleReq]
    /\ UNCHANGED <<kv, call, ret, wf, rest, lost>>

\* create_blog: a fresh project id, start_project, then the background task
CreateBlog(p, topic) ==
    /\ Idle(p)
    /\ wf[p] = NoWf
    /\ ~HasState(kv, p)
    /\ timeline[p] = << >>
    /\ StartEnter(p, topic)
    /\ wf' = [wf EXCEPT ![p] = [stage |-> StageOrder[1], phase |-> "call"]]

\* process_blog_workflow: call the process_<stage> of the next stage
WorkflowCall(p) ==
    /\ wf[p].phase = "call"
    /\ Idle(p)
    /\ ProcessEnter(p, wf[p].stage)
    /\ wf' = [wf EXCEPT ![p].phase = "wait"]

\* process_blog_workflow: `if not result.get("success")` return, else go on.
\* Its own except branch has no step: every process_<stage> catches
\* Exception and returns a dict, so nothing the workflow calls raises.
WorkflowReturn(p) ==
    /\ wf[p].phase = "wait"
    /\ Idle(p)
    /\ wf' = [wf EXCEPT ![p] =
                IF ret[p].success /\ NextStage(wf[p].stage) \in StageNames
                THEN [stage |-> NextStage(wf[p].stage), phase |-> "call"]
                ELSE [stage |-> wf[p].stage, phase |-> "done"]]
    /\ UNCHANGED <<kv, timeline, call, req, ret, rest, lost>>

----------------------------------------------------------------------------
(* Direct calls of the StateManager operations *)

\* documents handed to create_project_state: without and with timestamps
StoreDocs ==
    { [status |-> INITIALIZING, progress |-> 0],
      [status |-> IN_PROGRESS, progress |-> 15,
       created_at |-> Earlier, updated_at |-> Earlier] }

\* dicts handed to update_project_state, each with its last key in
\* insertion order ("-" for the empty dict)
StoreUpdates ==
    { [updates |-> [progress |-> 30], last |-> "progress"],
      [updates |-> [status |-> PAUSED, updated_at |-> Now],
       last |-> "updated_at"],
      [updates |-> [k \in {} |-> 0], last |-> "-"] }

\* events handed to add_event_to_project_timeline
StoreEvents ==
    { [event_type |-> "note", data |-> << >>],
      [event_type |-> "note", data |-> << >>, timestamp |-> Earlier] }

\* the value a store operation returned to its caller
StoreRet(op, ok) ==
    [op |-> op, stage |-> "-", success |-> ok, status |-> "-",
     error |-> NoError]

StoreCreate(p, doc) ==
    /\ kv' = CreateProjectState(kv, p, doc).kv
    /\ ret' = [ret EXCEPT ![p] =
                 StoreRet("create", CreateProjectState(kv, p, doc).ok)]
    /\ UNCHANGED <<timeline, call, req, wf, rest, lost>>

\* get_project_state; `reachable` is whether redis answers this call
StoreGet(p, reachable) ==
    /\ ret' = [ret EXCEPT ![p] =
                 StoreRet("get", TRUE) @@
                 [value |-> GetProjectStateOrError(kv, p, reachable)]]
    /\ UNCHANGED <<kv, timeline, call, req, wf, rest, lost>>

StoreUpdate(p, u) ==
    /\ kv' = UpdateProjectState(kv, p, u.updates, u.last).kv
    /\ ret' = [ret EXCEPT ![p] =
                 StoreRet("update",
                          UpdateProjectState(kv, p, u.updates, u.last).ok)]
    /\ UNCHANGED <<timeline, call, req, wf, rest, lost>>

StoreDelete(p) ==
    /\ kv' = DeleteProjectState(kv, p).kv
    /\ ret' = [ret EXCEPT ![p] =
                 StoreRet("delete", DeleteProjectState(kv, p).ok)]
    /\ UNCHANGED <<timeline, call, req, wf, rest, lost>>

StoreAppend(p, event) ==
    /\ Len(timeline[p]) < MaxOps
    /\ timeline' = AddEvent(timeline, p, event)
    /\ ret' = [ret EXCEPT ![p] = StoreRet("append", TRUE)]
    /\ UNCHANGED <<kv, call, req, wf, rest, lost>>

\* create_project_state by caller c, up to the answer of its exists() test
CreateExists(c, p, initial_state) ==
    /\ creating[c] = IdleCreate
    /\ creating' = [creating EXCEPT ![c] =
                       IF HasState(kv, p)
                       THEN [pc |-> "done", p |-> p, doc |-> initial_state,
                             result |-> "False"]
                       ELSE [pc |-> "set", p |-> p, doc |-> initial_state,
                             result |-> "-"]]
    /\ UNCHANGED <<kv, timeline, call, req, ret, wf, wp, marking, lost>>

\* the rest of that call: the SET and `return True`
CreateSet(c) ==
    /\ creating[c].pc = "set"
    /\ kv' = SetProjectState(kv, creating[c].p, creating[c].doc)
    /\ creating' = [creating EXCEPT ![c].pc = "done", ![c].result = "True"]
    /\ UNCHANGED <<timeline, call, req, ret, wf, wp, marking, lost>>

\* a project document that holds the content plan of its articles: the
\* initial_state of start_project with the content_plan key before the
\* timestamps
PlannedState(p, topic, plan) ==
    [content_plan |-> plan] @@ InitialState(p, topic)

\* create_project_state with such a document on a fresh project id
StorePlanned(p, topic, plan) ==
    /\ Idle(p)
    /\ ~HasState(kv, p)
    /\ StoreCreate(p, PlannedState(p, topic, plan))

\* any store operation on p
StoreCall(p) ==
    \/ \E doc \in StoreDocs : StoreCreate(p, doc)
    \/ \E reachable \in BOOLEAN : StoreGet(p, reachable)
    \/ \E u \in StoreUpdates : StoreUpdate(p, u)
    \/ StoreDelete(p)
    \/ \E event \in StoreEvents : StoreAppend(p, event)

----------------------------------------------------------------------------
(* Orchestrator._update_stage_status, its read and its write as two steps *)

\* state = self.state_manager.get_project_state(project_id)
MarkRead(p, stage, status) ==
    /\ marking = IdleMark
    /\ Idle(p)
    /\ HasState(kv, p)
    /\ marking' = [pc |-> "write", p |-> p, stage |-> stage,
                   status |-> status, state |-> GetProjectState(kv, p),
                   during |-> {}]
    /\ UNCHANGED <<kv, timeline, call, req, ret, wf, creating, wp, lost>>

\* another writer's update_project_state on the same project, between the
\* two; `during` keeps the updates made since the read
OtherWriter(u) ==
    /\ marking.pc = "write"
    /\ u.updates \notin marking.during
    /\ kv' = UpdateProjectState(kv, marking.p, u.updates, u.last).kv
    /\ marking' = [marking EXCEPT !.during = @ \cup {u.updates}]
    /\ UNCHANGED <<timeline, call, req, ret, wf, creating, wp, lost>>

\* the changes to `state` and self.state_manager.update_project_state(
\* project_id, state)
MarkWrite ==
    /\ marking.pc = "write"
    /\ kv' = WriteStageStatus(kv, marking.p, marking.state, marking.stage,
                              marking.status, TRUE)
    /\ marking' = IdleMark
    /\ UNCHANGED <<timeline, call, req, ret, wf, creating, wp, lost>>

----------------------------------------------------------------------------
(* WordPressService.setup_blog *)

\* the loops of setup_blog, in order
Phases == << "categories", "tags", "posts" >>

\* the first loop from the k-th on that has an item, or the return
PhaseFrom(blog_data, k) ==
    LET todo == {j \in k..Len(Phases) : Len(blog_data[Phases[j]]) > 0} IN
    IF todo = {} THEN "done"
    ELSE Phases[CHOOSE j \in todo : \A h \in todo : j <= h]

\* where setup_blog stands after the i-th item of a loop
Advance(blog_data, phase, i) ==
    IF i < Len(blog_data[phase])
    THEN [pc |-> phase, i |-> i + 1]
    ELSE LET k == CHOOSE j \in 1..Len(Phases) : Phases[j] = phase
         IN  [pc |-> PhaseFrom(blog_data, k + 1), i |-> 1]

\* a variant of RecordTerm that keeps the id a name already has
RecordTermKeepFirst(entries, name, id) == entries @@ (name :> id)

\* result["categories"][name] = id: a dict keyed by the name
RecordTerm(entries, name, id) == (name :> id) @@ entries

\* [entries[n] for n in names if n in entries]
TermIds(entries, names) ==
    LET known == SelectSeq(names, LAMBDA n : n \in DOMAIN entries)
    IN  [j \in 1..Len(known) |-> entries[known[j]]]

\* the id WordPress gives to what a create call makes: a fresh one
FreshId(calls) == Len(calls) + 1

\* a create call of kind category or tag as the service receives it
TermCall(kind, name, ok, id) ==
    [kind |-> kind, name |-> name, categories |-> << >>, tags |-> << >>,
     ok |-> ok, id |-> IF ok THEN id ELSE 0]

\* the except branch: the partial result with status error
SetupFailed(result) == [result EXCEPT !.status = "error", !.error = RequestError]

\* the call, on any blog_data
SetupBlog ==
    /\ wp = IdleSetup
    /\ \E blog_data \in BlogData :
          wp' = [pc |-> PhaseFrom(blog_data, 1), blog_data |-> blog_data,
                 i |-> 1, result |-> EmptyResult, calls |-> << >>]
    /\ UNCHANGED <<kv, timeline, call, req, ret, wf, creating, marking, lost>>

\* one round of the categories loop; ok: create_category returned
SetupCategory(ok) ==
    /\ wp.pc = "categories"
    /\ LET name == wp.blog_data.categories[wp.i]
           id == FreshId(wp.calls)
           next == Advance(wp.blog_data, "categories", wp.i)
       IN  wp' = [wp EXCEPT
                    !.calls = Append(@, TermCall("category", name, ok, id)),
                    !.result = IF ok
                               THEN [@ EXCEPT !.categories =
                                                RecordTerm(@, name, id)]
                               ELSE SetupFailed(@),
                    !.pc = IF ok THEN next.pc ELSE "done",
                    !.i = IF ok THEN next.i ELSE @]
    /\ UNCHANGED <<kv, timeline, call, req, ret, wf, creating, marking, lost>>

\* one round of the tags loop
SetupTag(ok) ==
    /\ wp.pc = "tags"
    /\ LET name == wp.blog_data.tags[wp.i]
           id == FreshId(wp.calls)
           next == Advance(wp.blog_data, "tags", wp.i)
       IN  wp' = [wp EXCEPT
                    !.calls = Append(@, TermCall("tag", name, ok, id)),
                    !.result = IF ok
                               THEN [@ EXCEPT !.tags = RecordTerm(@, name, id)]
                               ELSE SetupFailed(@),
                    !.pc = IF ok THEN next.pc ELSE "done",
                    !.i = IF ok THEN next.i ELSE @]
    /\ UNCHANGED <<kv, timeline, call, req, ret, wf, creating, marking, lost>>

\* one round of the posts loop: map the names to ids, create the post
SetupPost(ok) ==
    /\ wp.pc = "posts"
    /\ LET post == wp.blog_data.posts[wp.i]
           category_ids == TermIds(wp.result.categories, post.categories)
           tag_ids == TermIds(wp.result.tags, post.tags)
           id == FreshId(wp.calls)
           next == Advance(wp.blog_data, "posts", wp.i)
       IN  wp' = [wp EXCEPT
                    !.calls = Append(@, [kind |-> "post", name |-> "-",
                                         categories |-> category_ids,
                                         tags |-> tag_ids, ok |-> ok,
                                         id |-> IF ok THEN id ELSE 0]),
                    !.result = IF ok
                               THEN [@ EXCEPT !.posts =
                                                Append(@, [id |-> id])]
                               ELSE SetupFailed(@),
                    !.pc = IF ok THEN next.pc ELSE "done",
                    !.i = IF ok THEN next.i ELSE @]
    /\ UNCHANGED <<kv, timeline, call, req, ret, wf, creating, marking, lost>>

----------------------------------------------------------------------------
(* Specifications *)

\* the store writes of the operation in flight for p
Step(p) ==
    \/ StartEvent(p)
    \/ StartMark(p)
    \/ ProcessExecute(p)
    \/ ProcessEvent(p)
    \/ ProcessMarkCompleted(p)
    \/ ProcessChain(p)
    \/ ProcessMarkFailed(p)
    \/ ProcessFailedEvent(p)

\* start, run_stage and cancel requests in any order, one at a time per project
Next ==
    \E p \in Requested :
        \/ \E topic \in Topics : StartProject(p, topic)
        \/ \E stage \in StageNames : ProcessBegin(p, stage)
        \/ CancelBlogCreation(p)
        \/ CancelEvent(p)
        \/ Step(p)

Spec == Init /\ [][Next]_vars

\* create_blog followed by its background workflow, for every project id
NextWorkflow ==
    \E p \in ProjectIds :
        \/ \E topic \in Topics : CreateBlog(p, topic)
        \/ WorkflowCall(p)
        \/ WorkflowReturn(p)
        \/ Step(p)

SpecWorkflow == Init /\ [][NextWorkflow]_vars

\* the background task is scheduled until it returns: every step of the
\* workflow of a project that stays possible is eventually taken
WorkflowRuns(p) == WorkflowCall(p) \/ WorkflowReturn(p) \/ Step(p)

SpecWorkflowFair ==
    SpecWorkflow /\ \A p \in ProjectIds : WF_vars(WorkflowRuns(p))

\* the background workflow of a project with cancel requests arriving while
\* one of its calls is in flight
NextCancel ==
    \E p \in Requested :
        \/ \E topic \in Topics : CreateBlog(p, topic)
        \/ WorkflowCall(p)
        \/ WorkflowReturn(p)
        \/ CancelInFlight(p)
        \/ CancelEventInFlight(p)
        \/ Step(p)

SpecCancel == Init /\ [][NextCancel]_vars

\* the store writes of the operation in flight for p, each store call
\* answered or not
StepConn(p) ==
    \E readable, writable \in BOOLEAN :
        \/ StartEventConn(p, writable)
        \/ StartMarkConn(p, readable, writable)
        \/ ProcessExecuteConn(p, writable)
        \/ ProcessEventConn(p, writable)
        \/ ProcessMarkCompletedConn(p, readable, writable)
        \/ ProcessChainConn(p, readable, writable)
        \/ ProcessMarkFailedConn(p, readable, writable)
        \/ ProcessFailedEventConn(p, writable)
        \/ CancelEventConn(p, writable)

StartProjectConn(p, topic, answers, writable) ==
    /\ Idle(p)
    /\ Len(timeline[p]) < MaxOps
    /\ StartEnterConn(p, topic, answers, writable)
    /\ UNCHANGED <<wf, rest>>

ProcessBeginConn(p, stage, loadable, readable, writable) ==
    /\ Idle(p)
    /\ Len(timeline[p]) < MaxOps
    /\ ProcessEnterConn(p, stage, loadable, readable, writable)
    /\ UNCHANGED <<wf, rest>>

CancelBlogCreationConn(p, readable, writable) ==
    /\ Idle(p)
    /\ Len(timeline[p]) < MaxOps
    /\ CancelEnterConn(p, readable, writable)
    /\ UNCHANGED <<wf, rest>>

\* the stages run in SpecOutage: one that takes no input and the one that
\* needs the site id from the loaded state
OutageStages == {"topic_analysis", "deployment"}

\* start, run_stage, cancel and delete requests in any order, one at a time
\* per project, over a store that may fail to answer any single call
NextOutage ==
    \E p \in Requested :
        \/ \E topic \in Topics : \E answers, writable \in BOOLEAN :
              StartProjectConn(p, topic, answers, writable)
        \/ \E stage \in OutageStages : \E loadable, readable, writable \in BOOLEAN :
              ProcessBeginConn(p, stage, loadable, readable, writable)
        \/ \E readable, writable \in BOOLEAN :
              CancelBlogCreationConn(p, readable, writable)
        \/ StepConn(p)
        \/ Idle(p) /\ StoreDelete(p)

SpecOutage == Init /\ [][NextOutage]_vars

\* the store operations called directly, in any order
NextStore == \E p \in Requested : StoreCall(p)

SpecStore == Init /\ [][NextStore]_vars

\* start, run_stage and cancel requests together with direct appends to
\* the timeline and deletes of the state
NextTimeline ==
    \/ Next
    \/ \E p \in Requested :
          \/ \E event \in StoreEvents : StoreAppend(p, event)
          \/ StoreDelete(p)

SpecTimeline == Init /\ [][NextTimeline]_vars

\* a started project whose stage status is updated while other writers
\* update the same project
NextRace ==
    \/ \E p \in Requested :
          \/ \E topic \in Topics : StartProject(p, topic)
          \/ StartEvent(p)
          \/ StartMark(p)
          \/ \E stage \in StageNames :
                \E status \in {"in_progress", "completed", "failed"} :
                    MarkRead(p, stage, status)
    \/ \E u \in StoreUpdates : OtherWriter(u)
    \/ MarkWrite

SpecRace == Init /\ [][NextRace]_vars

\* the stages that create and publish the articles
ContentStages == {"content_creation", "site_generation"}

\* run_stage requests for these stages on a project whose document holds a
\* content plan
NextContent ==
    \E p \in Requested :
        \/ \E topic \in Topics : \E plan \in Plans \ {<< >>} :
              StorePlanned(p, topic, plan)
        \/ \E stage \in ContentStages : ProcessBegin(p, stage)
        \/ ProcessExecute(p)
        \/ ProcessEvent(p)
        \/ ProcessMarkCompleted(p)
        \/ ProcessChain(p)
        \/ ProcessMarkFailed(p)
        \/ ProcessFailedEvent(p)

SpecContent == Init /\ [][NextContent]_vars

\* create_project_state calls of several callers, their steps interleaved
NextCreate ==
    \E c \in Callers :
        \/ \E p \in ProjectIds : \E doc \in StoreDocs : CreateExists(c, p, doc)
        \/ CreateSet(c)

SpecCreate == Init /\ [][NextCreate]_vars

\* one setup_blog call on any blog_data, each create call failing or not
NextSetup ==
    \/ SetupBlog
    \/ \E ok \in BOOLEAN : SetupCategory(ok)
    \/ \E ok \in BOOLEAN : SetupTag(ok)
    \/ \E ok \in BOOLEAN : SetupPost(ok)

SpecSetup == Init /\ [][NextSetup]_vars

TypeOK ==
    /\ \A p \in ProjectIds : Len(timeline[p]) <= 8
    /\ \A p \in ProjectIds : call[p].op \in {"none", "start", "run"}
    /\ \A p \in ProjectIds : req[p].pc \in {"-", "event"}
    /\ \A p \in ProjectIds : wf[p].phase \in {"none", "call", "wait", "done"}

----------------------------------------------------------------------------
(* Properties *)

\* the document get(p) returns
Doc(p) == GetProjectState(kv, p)

\* C1 -- Idempotent creation: a start on a project id that already has a
\* state document reports a conflict, and no step of that call changes the
\* project's document or its timeline.
C1_IdempotentCreation ==
    [][\A p \in ProjectIds :
          (call[p].op = "start" /\ ~call[p].created) =>
              /\ timeline'[p] = timeline[p]
              /\ GetProjectState(kv', p) = GetProjectState(kv, p)
              /\ (call'[p] = IdleCall => ~ret'[p].success)]_vars

\* C2 -- Scenario A: when start returns for a fresh project id, get shows
\* status INITIALIZING, current_stage topic_analysis, topic_analysis
\* in_progress, every other stage pending, one project_started event, and
\* start returned INITIALIZING with no executor invoked.
C2_ScenarioA ==
    [][\A p \in ProjectIds :
          (call[p].op = "start" /\ call[p].created /\ call'[p] = IdleCall) =>
              LET d == GetProjectState(kv', p) IN
              /\ d.status = INITIALIZING
              /\ d.current_stage = "topic_analysis"
              /\ d.stages["topic_analysis"].status = "in_progress"
              /\ \A s \in StageNames \ {"topic_analysis"} :
                    d.stages[s].status = "pending"
              /\ CountEvents(timeline'[p], "project_started") = 1
              /\ ret'[p].success /\ ret'[p].status = INITIALIZING]_vars

\* C3 -- Scenario B: when process_<s> returns success on an existing
\* project, get shows the result stored under s's key, progress at s's
\* checkpoint, s completed, an <s>_completed event, the next stage
\* in_progress, and status COMPLETED when s is deployment.
C3_ScenarioB ==
    [][\A p \in ProjectIds :
          (call[p].op = "run" /\ call[p].pc = "chain" /\ call'[p] = IdleCall
             /\ HasState(kv, p)) =>
              LET s == call[p].stage
                  d == GetProjectState(kv', p)
              IN  /\ PayloadKey(s) \in DOMAIN d
                  /\ d[PayloadKey(s)] = call[p].value
                  /\ d.progress = Checkpoint(s)
                  /\ d.stages[s].status = "completed"
                  /\ HasEvent(timeline'[p], CompletedEvent(s))
                  /\ (s # "deployment" =>
                        d.stages[NextStage(s)].status = "in_progress")
                  /\ (s = "deployment" => d.status = COMPLETED)]_vars

\* C4 -- Scenario C: when the executor of s raised and process_<s> returns
\* on an existing project, get shows status FAILED, s failed, the error
\* message in the document, an <s>_failed event carrying the error text, and
\* the stage after s pending.
C4_ScenarioC ==
    [][\A p \in ProjectIds :
          (call[p].op = "run" /\ call[p].pc = "failed_event"
             /\ call'[p] = IdleCall /\ HasState(kv, p)) =>
              LET s == call[p].stage
                  d == GetProjectState(kv', p)
                  last == timeline'[p][Len(timeline'[p])]
              IN  /\ d.status = FAILED
                  /\ d.stages[s].status = "failed"
                  /\ "error" \in DOMAIN d
                  /\ d.error = call[p].err
                  /\ last.event_type = FailedEvent(s)
                  /\ last.data = << call[p].err >>
                  /\ (NextStage(s) \in StageNames =>
                        d.stages[NextStage(s)].status = "pending")]_vars

\* C5 -- Failure isolation: in the background workflow, once process_<k>
\* has returned a failure, the stages after k are pending, no later
\* executor is in flight, and the global status is FAILED.
C5_FailureIsolation ==
    \A p \in ProjectIds :
        (ret[p].op = "run" /\ ~ret[p].success /\ HasState(kv, p)) =>
            /\ call[p] = IdleCall
            /\ wf[p].phase \in {"wait", "done"}
            /\ wf[p].stage = ret[p].stage
            /\ \A s \in StageNames :
                  StageIndex(s) > StageIndex(ret[p].stage) =>
                      Doc(p).stages[s].status = "pending"
            /\ Doc(p).status = FAILED

\* C6 -- Derived global status: in every persisted document, a failed stage
\* record implies status FAILED, and status COMPLETED implies that all six
\* stage records are completed.
C6_DerivedStatus ==
    \A p \in ProjectIds :
        HasState(kv, p) =>
            /\ (\E s \in StageNames : Doc(p).stages[s].status = "failed")
                  => Doc(p).status = FAILED
            /\ Doc(p).status \in {COMPLETED, COMPLETED_LITERAL}
                  => \A s \in StageNames : Doc(p).stages[s].status = "completed"

CompletedStages(d) == {s \in StageNames : d.stages[s].status = "completed"}

Prefix(k) == {StageOrder[i] : i \in 1..k}

LegalStageChange ==
    { <<"pending", "in_progress">>, <<"in_progress", "completed">>,
      <<"in_progress", "failed">> }

\* C8 -- Per-stage transitions: every change of a persisted stage status is
\* pending to in_progress, in_progress to completed or in_progress to
\* failed, or is the re-entry of a completed or failed stage made by the
\* run_stage of that same stage.
C8_StageTransitions ==
    [][\A p \in ProjectIds :
          (HasState(kv, p) /\ HasState(kv', p)) =>
              \A s \in StageNames :
                  LET old == GetProjectState(kv, p).stages[s].status
                      new == GetProjectState(kv', p).stages[s].status
                  IN  old # new =>
                          \/ <<old, new>> \in LegalStageChange
                          \/ /\ old \in {"completed", "failed"}
                             /\ new = "in_progress"
                             /\ call'[p].op = "run" /\ call'[p].stage = s
                             /\ call[p] = IdleCall]_vars

LegalStatusChange ==
    { <<INITIALIZING, IN_PROGRESS>>, <<IN_PROGRESS, COMPLETED>>,
      <<IN_PROGRESS, FAILED>>, <<IN_PROGRESS, PAUSED>> }

\* C9 -- Project-level status: every change of the persisted status is
\* INITIALIZING to IN_PROGRESS, IN_PROGRESS to COMPLETED, IN_PROGRESS to
\* FAILED or IN_PROGRESS to PAUSED.
C9_StatusTransitions ==
    [][\A p \in ProjectIds :
          (HasState(kv, p) /\ HasState(kv', p)) =>
              LET old == GetProjectState(kv, p).status
                  new == GetProjectState(kv', p).status
              IN  old # new => <<old, new>> \in LegalStatusChange]_vars

C11_ProgressComplete ==
    \A p \in ProjectIds :
        HasState(kv, p) =>
            (Doc(p).progress = 100 => Doc(p).status = COMPLETED)

\* the keys of a document a cancel must leave alone
KeptByCancel(d) == DOMAIN d \ {"status", "updated_at"}

\* C12 -- Scenario D: a cancel of an existing project that is under way
\* (persisted as INITIALIZING or IN_PROGRESS) leaves get with status PAUSED,
\* appends exactly one project_cancelled event whose data is the status read
\* before the cancel, and leaves the stage records, current_stage, progress
\* and the result payloads as they were.
C12_ScenarioD ==
    [][\A p \in ProjectIds :
          /\ (req[p] = IdleReq /\ req'[p].pc = "event"
                /\ Doc(p).status \in {INITIALIZING, IN_PROGRESS}) =>
                 LET old == GetProjectState(kv, p)
                     new == GetProjectState(kv', p)
                 IN  /\ new.status = PAUSED
                     /\ DOMAIN new = DOMAIN old
                     /\ \A k \in KeptByCancel(old) : new[k] = old[k]
                     /\ req'[p].prev = old.status
                     /\ timeline'[p] = timeline[p]
          /\ (req[p].pc = "event" /\ req'[p] = IdleReq
                /\ req[p].prev \in {INITIALIZING, IN_PROGRESS}) =>
                 LET last == timeline'[p][Len(timeline'[p])] IN
                 /\ Len(timeline'[p]) = Len(timeline[p]) + 1
                 /\ SubSeq(timeline'[p], 1, Len(timeline[p])) = timeline[p]
                 /\ last.event_type = "project_cancelled"
                 /\ last.data = << req[p].prev >>
                 /\ GetProjectState(kv', p).status = PAUSED
                 /\ ret'[p].success]_vars

\* a cancel of p has written PAUSED (its event may still be due)
Cancelled(p) ==
    HasEvent(timeline[p], "project_cancelled") \/ req[p].pc = "event"

\* C13 -- Cancellation stops chaining: once a cancel has written PAUSED
\* while a process_<stage> call of the background workflow was in flight,
\* the workflow calls no further process_<stage> (which would mark the next
\* stage in_progress and invoke its executor), and when the call in flight
\* has returned the persisted status is PAUSED.
C13_CancelStopsChaining ==
    [][\A p \in ProjectIds :
          Cancelled(p) =>
              /\ ~(wf[p].phase = "call" /\ wf'[p].phase = "wait")
              /\ (wf[p].phase = "wait" /\ wf'[p].phase # "wait") =>
                    GetProjectState(kv', p).status = PAUSED]_vars

\* C14 -- run_stage on an unknown project: while process_<s> runs for a
\* project id that has no state document, it does not reach the executor,
\* no step of it creates a state document or appends a timeline event, and
\* it returns a failure outcome.
C14_RunStageNotFound ==
    [][\A p \in ProjectIds :
          (call[p].op = "run" /\ ~HasState(kv, p)) =>
              /\ call[p].pc # "execute"
              /\ ~HasState(kv', p)
              /\ timeline'[p] = timeline[p]
              /\ (call'[p] = IdleCall => ~ret'[p].success)]_vars

\* a document as create_project_state stores it
Stamped(doc) ==
    IF "created_at" \in DOMAIN doc THEN doc ELSE doc @@ [created_at |-> Now]

\* C15 -- Round trip: after a create that returned true, get returns the
\* given document plus a created_at stamp if it had none; after an update
\* that returned true, get returns the previous document with every key of
\* the update set to its new value, updated_at refreshed and every other
\* key unchanged.
C15_RoundTrip ==
    [][\A p \in ProjectIds :
          /\ \A doc \in StoreDocs :
                (StoreCreate(p, doc) /\ ret'[p].success) =>
                    GetProjectState(kv', p) = Stamped(doc)
          /\ \A u \in StoreUpdates :
                (StoreUpdate(p, u) /\ ret'[p].success) =>
                    LET old == GetProjectState(kv, p)
                        new == GetProjectState(kv', p)
                    IN  /\ DOMAIN new =
                              DOMAIN old \cup DOMAIN u.updates \cup {"updated_at"}
                        /\ new.updated_at = Now
                        /\ \A k \in DOMAIN u.updates \ {"updated_at"} :
                              new[k] = u.updates[k]
                        /\ \A k \in DOMAIN old \ (DOMAIN u.updates \cup {"updated_at"}) :
                              new[k] = old[k]]_vars

\* C16 -- Update of an unknown project: an update on a project id that has
\* no state document returns false and changes neither the keyspace nor any
\* timeline.
C16_UpdateMissing ==
    [][\A p \in ProjectIds : \A u \in StoreUpdates :
          (StoreUpdate(p, u) /\ ~HasState(kv, p)) =>
              /\ ~ret'[p].success
              /\ kv' = kv
              /\ timeline' = timeline]_vars

\* C16 witness: an update of P1 was refused while P1 has no document and
\* the store is not empty (stray keys or events of earlier calls remain).
C16_Witness ==
    \E p \in ProjectIds :
        /\ ret[p].op = "update" /\ ~ret[p].success
        /\ ~HasState(kv, p)
        /\ DOMAIN kv # {}
        /\ timeline[p] # << >>

C18_ScenarioF ==
    [][\A p \in ProjectIds :
          (StoreDelete(p) /\ HasState(kv, p) /\ timeline[p] # << >>) =>
              /\ GetProjectState(kv', p).status = NOT_FOUND
              /\ GetProjectTimeline(timeline', p) = << >>]_vars

IsPrefix(a, b) == Len(a) <= Len(b) /\ SubSeq(b, 1, Len(a)) = a

C20_GetTotal ==
    [][\A p \in ProjectIds : \A reachable \in BOOLEAN :
          StoreGet(p, reachable) =>
              /\ kv' = kv /\ timeline' = timeline
              /\ ret'[p].success
              /\ IF ~reachable
                 THEN /\ ret'[p].value.status = ERROR
                      /\ DOMAIN ret'[p].value = {"status", "error"}
                 ELSE IF ProjectKey(p) \in DOMAIN kv
                      THEN ret'[p].value = kv[ProjectKey(p)]
                      ELSE /\ ret'[p].value.status = NOT_FOUND
                           /\ DOMAIN ret'[p].value = {"status", "error"}]_vars

\* C20 witness: a get made while the store did not answer returned the
\* ERROR document although the project has a stored document.
C20_Witness ==
    \E p \in ProjectIds :
        /\ ret[p].op = "get"
        /\ ret[p].value.status = ERROR
        /\ HasState(kv, p)
        /\ kv[ProjectKey(p)].status # ERROR

SyntheticStatuses == {NOT_FOUND, ERROR, UNKNOWN}

\* C21 -- Synthetic statuses are never persisted: in every state reached by
\* start, run_stage, cancel and delete, with store calls that may fail and
\* project ids that may be missing, no document stored under any key has
\* status NOT_FOUND, ERROR or UNKNOWN.
C21_NoSyntheticPersisted ==
    \A k \in DOMAIN kv : kv[k].status \notin SyntheticStatuses

\* C21 witness: a cancel whose read of the state got no answer went on with
\* the ERROR document (recorded as the previous status) and wrote PAUSED.
C21_Witness ==
    \E p \in ProjectIds :
        /\ HasState(kv, p)
        /\ \E i \in 1..Len(timeline[p]) :
              /\ timeline[p][i].event_type = "project_cancelled"
              /\ timeline[p][i].data = << ERROR >>
        /\ \E k \in DOMAIN kv : kv[k].status = PAUSED

\* errors raised by the collaborators the stage executors call
CollaboratorErrors ==
    {ProviderError, CreateSiteFailed, BuildFailed, DeployFailed}

\* a stage executor of p's workflow has failed
ExecutorFailed(p) ==
    /\ ret[p].op = "run"
    /\ ~ret[p].success
    /\ ret[p].error \in CollaboratorErrors

\* the workflow of p has returned and the persisted document is complete
WorkflowCompleted(p) ==
    /\ wf[p].phase = "done"
    /\ HasState(kv, p)
    /\ Doc(p).status = COMPLETED
    /\ Doc(p).progress = 100
    /\ \A s \in StageNames : Doc(p).stages[s].status = "completed"

\* C22 -- Workflow completion: once create_blog has started P and handed it
\* to process_blog_workflow, with the store answering every call and no
\* cancel or delete, either a stage executor fails or the workflow eventually
\* terminates with P's persisted status COMPLETED, progress 100 and all six
\* stages completed.
C22_WorkflowCompletion ==
    \A p \in ProjectIds :
        (wf[p].phase = "call" /\ wf[p].stage = StageOrder[1])
            ~> (ExecutorFailed(p) \/ WorkflowCompleted(p))

\* C23 -- Store unavailability on a write is a hard failure: process_<stage>
\* on an existing project never returns success for a stage whose <stage>_completed event did not
\* reach the timeline, also when a store call of the stage gets no answer.
C23_WriteOutageFails ==
    [][\A p \in ProjectIds :
          (call[p].op = "run" /\ call[p].pc = "chain"
             /\ call'[p] = IdleCall /\ ret'[p].success /\ HasState(kv, p)) =>
              HasEvent(timeline'[p], CompletedEvent(call[p].stage))]_vars

\* C24 -- No executor error escapes: when the executor of s raised,
\* process_<s> on an existing project returns success=false with the error
\* text, and at that return the stage is failed and the project FAILED in
\* the persisted document and the last timeline event is <s>_failed.
C24_ErrorContained ==
    [][\A p \in ProjectIds :
          (call[p].op = "run" /\ call[p].pc = "failed_event"
             /\ call'[p] = IdleCall /\ HasState(kv, p)) =>
              LET s == call[p].stage
                  d == GetProjectState(kv', p)
              IN  /\ ret'[p].op = "run" /\ ret'[p].stage = s
                  /\ ~ret'[p].success
                  /\ ret'[p].error = call[p].err
                  /\ HasEvent(timeline'[p], FailedEvent(s))
                  /\ d.stages[s].status = "failed"
                  /\ d.status = FAILED]_vars

\* setup_blog has returned the result with status success
SetupSucceeded == wp.pc = "done" /\ wp.result.status = "success"

Range(seq) == {seq[i] : i \in 1..Len(seq)}

\* the create calls setup_blog made are one per listed item: the categories
\* in order, then the tags in order, then the posts in order
OneCallPerItem ==
    LET bd == wp.blog_data
        nc == Len(bd.categories)
        nt == Len(bd.tags)
    IN  /\ Len(wp.calls) = nc + nt + Len(bd.posts)
        /\ \A i \in 1..nc : /\ wp.calls[i].kind = "category"
                             /\ wp.calls[i].name = bd.categories[i]
        /\ \A i \in 1..nt : /\ wp.calls[nc + i].kind = "tag"
                             /\ wp.calls[nc + i].name = bd.tags[i]
        /\ \A i \in 1..Len(bd.posts) : wp.calls[nc + nt + i].kind = "post"
        /\ Len(wp.result.posts) = Len(bd.posts)
        /\ \A i \in 1..Len(bd.posts) :
              wp.result.posts[i].id = wp.calls[nc + nt + i].id

\* the ids returned by the create calls i of offset+1..offset+Len(listed)
\* whose name is one of names
IdsReturned(listed, offset, names) ==
    {wp.calls[offset + i].id : i \in {j \in 1..Len(listed) : listed[j] \in names}}

\* the id returned by the last create call for the name
LastId(listed, offset, name) ==
    LET last == CHOOSE i \in 1..Len(listed) :
                    /\ listed[i] = name
                    /\ \A j \in (i + 1)..Len(listed) : listed[j] # name
    IN  wp.calls[offset + last].id

\* C25 as stated -- when every create call of setup_blog succeeded, the
\* calls were one per listed item in the order categories, tags, posts, the
\* result has exactly one entry per listed category, tag and post carrying
\* the id returned for it, and each post was given the ids returned for the
\* categories and tags it names.
C25_OneEntryPerItem ==
    SetupSucceeded =>
        LET bd == wp.blog_data
            nc == Len(bd.categories)
            nt == Len(bd.tags)
        IN  /\ OneCallPerItem
            /\ Cardinality(DOMAIN wp.result.categories) = nc
            /\ Cardinality(DOMAIN wp.result.tags) = nt
            /\ \A i \in 1..nc :
                  wp.result.categories[bd.categories[i]] = wp.calls[i].id
            /\ \A i \in 1..nt :
                  wp.result.tags[bd.tags[i]] = wp.calls[nc + i].id
            /\ \A i \in 1..Len(bd.posts) :
                  /\ Range(wp.calls[nc + nt + i].categories) =
                        IdsReturned(bd.categories, 0,
                                    Range(bd.posts[i].categories))
                  /\ Range(wp.calls[nc + nt + i].tags) =
                        IdsReturned(bd.tags, nc, Range(bd.posts[i].tags))

\* C25 -- when every create call of setup_blog succeeded, the calls were
\* one per listed item in the order categories, tags, posts, the result has
\* one entry per post carrying the id returned for it and one entry per
\* distinct category name and per distinct tag name carrying the id returned
\* by the last create call for that name, and each post was given, for each
\* name it lists that was created, the id recorded for that name.
C25_OneEntryPerName ==
    SetupSucceeded =>
        LET bd == wp.blog_data
            nc == Len(bd.categories)
            nt == Len(bd.tags)
            created(listed, names) ==
                SelectSeq(names, LAMBDA n : n \in Range(listed))
        IN  /\ OneCallPerItem
            /\ DOMAIN wp.result.categories = Range(bd.categories)
            /\ DOMAIN wp.result.tags = Range(bd.tags)
            /\ \A n \in Range(bd.categories) :
                  wp.result.categories[n] = LastId(bd.categories, 0, n)
            /\ \A n \in Range(bd.tags) :
                  wp.result.tags[n] = LastId(bd.tags, nc, n)
            /\ \A i \in 1..Len(bd.posts) :
                  LET c == wp.calls[nc + nt + i]
                      cats == created(bd.categories, bd.posts[i].categories)
                      tags == created(bd.tags, bd.posts[i].tags)
                  IN  /\ c.categories =
                            [j \in 1..Len(cats) |->
                                LastId(bd.categories, 0, cats[j])]
                      /\ c.tags =
                            [j \in 1..Len(tags) |->
                                LastId(bd.tags, nc, tags[j])]

\* C25 witness: a successful setup_blog of two categories of the same name,
\* a tag and a post that names the category and the tag.
C25_Witness ==
    /\ SetupSucceeded
    /\ Len(wp.blog_data.categories) = 2
    /\ wp.blog_data.categories[1] = wp.blog_data.categories[2]
    /\ Len(wp.blog_data.tags) = 1
    /\ Len(wp.result.posts) = 1
    /\ wp.calls[4].categories # << >>
    /\ wp.calls[4].tags # << >>

\* the fields a stage-status update is to change
StageStatusFields == {"stages", "current_stage", "status", "updated_at"}

\* C26 -- Stage-status updates do not clobber other writers: when the write
\* of an _update_stage_status call is done, every field outside the stage
\* record, current_stage, status and updated_at that another writer
\* updated since the call's read has, in the project's document, the value
\* that writer gave it.
C26_NoClobber ==
    [][(marking.pc = "write" /\ marking'.pc = "-") =>
          \A u \in marking.during :
              \A f \in DOMAIN u \ StageStatusFields :
                  LET d == GetProjectState(kv', marking.p)
                  IN  f \in DOMAIN d /\ d[f] = u[f]]_vars

\* C27 -- Project-scoped keys: every key of the store that holds a document
\* is the state key of a project (the timelines are kept per project).
C27_ProjectScopedKeys ==
    \A k \in DOMAIN kv : \E p \in ProjectIds : k = ProjectKey(p)

\* an external collaborator raised during the process_<stage> call c: the
\* executor's error, or the provider's error behind an error article
CollaboratorRaised(c) ==
    \/ c.err \in CollaboratorErrors
    \/ /\ c.stage = "content_creation"
       /\ \E i \in 1..Len(c.value) : c.value[i] = "error_article"

\* C28 -- A collaborator's error stops the stage: a process_<stage> call on
\* an existing project during which an external collaborator raised (the
\* provider for an article of content_creation included) does not return
\* success, so the workflow does not advance, and appends no
\* <stage>_completed event.
C28_ErrorStopsStage ==
    [][\A p \in ProjectIds :
          (call[p].op = "run" /\ call'[p] = IdleCall /\ HasState(kv, p)
             /\ CollaboratorRaised(call[p])) =>
              /\ ~ret'[p].success
              /\ CountEvents(timeline'[p], CompletedEvent(call[p].stage)) =
                    CountEvents(timeline[p], CompletedEvent(call[p].stage))]_vars

\* the create_project_state calls on p that returned True
Winners(p) ==
    {c \in Callers : /\ creating[c].pc = "done"
                     /\ creating[c].p = p
                     /\ creating[c].result = "True"}

\* C30 -- Concurrent creates: of the create_project_state calls made on a
\* project id that had no document, at most one has returned True, and
\* the stored document is the one that call passed (with its created_at
\* stamp); once all callers have returned, one of those on the id did
\* return True.
C30_OneCreateWins ==
    \A p \in ProjectIds :
        /\ Cardinality(Winners(p)) <= 1
        /\ \A c \in Winners(p) :
              HasState(kv, p) /\ kv[ProjectKey(p)] = Stamped(creating[c].doc)
        /\ ((\A c \in Callers : creating[c].pc = "done")
              /\ (\E c \in Callers : creating[c].p = p))
             => Winners(p) # {}

====
